---- MODULE Spec2Model ----
(***************************************************************************)
(* A model of food_app.py: the opening-hours evaluator (is_open_now), the  *)
(* geocode / nearby-search / row-building pipeline of main(), the filter   *)
(* and sort stage, and the review selector.                                *)
(*                                                                         *)
(* Python dictionaries are records that carry a field `keys`: the set of   *)
(* keys that are present.  Strings the code slices, measures or compares   *)
(* character by character are sequences of one-character strings.  A       *)
(* raised exception is the result value "KeyError" or "ValueError".        *)
(* Ratings are held in tenths (45 is 4.5).                                 *)
(***************************************************************************)
EXTENDS Integers, Sequences, FiniteSets, TLC

VARIABLES
    \* ---- is_open_now called on its own (SpecEval)
    sched,            \* the weekly schedule the places API holds for the venue
    opening_hours,    \* the opening_hours dictionary the API sends for it
    now,              \* the clock: [day, minute] in Asia/Singapore
    open_status,      \* what is_open_now returned (or the exception it raised)
    epc,              \* "call" before the call, "returned" after it
    \* ---- one run of main(): geocode, nearby search, row building
    pc,               \* where the run is
    geocode_result,   \* what gmaps.geocode answered: "exception", "empty", "ok"
    coords,           \* lat, lng as get_coordinates returned them
    catIdx,           \* index into food_types of the next category to search
    responses,        \* what gmaps.places_nearby answered, per category so far
    places,           \* the list get_nearby_food_places builds and returns
    st_errors,        \* the st.error / st.warning messages shown, [kind, at]
    rowIdx,           \* index into places of the next place to process
    detailCache,      \* st.cache_data of get_place_details: place_id -> result
    distCache,        \* st.cache_data of calculate_distance: destination -> text
    place_data,       \* the rows appended so far
    df,               \* the table after drop_duplicates
    \* ---- the filter and sort stage
    fpc,              \* "filter", then "sort" or "warned", then "sorted"
    min_rating,       \* the sidebar's minimum rating, in tenths
    max_price,        \* the sidebar's maximum price level: 'Any', '$', ...
    open_status_filter,
    selected_cuisines,
    df_filtered,      \* the filtered (then sorted) table
    sort_option,      \* the key chosen in "Sort by:"
    \* ---- the reviews of the selected place
    vpc,              \* "select", then "shown" or "none"
    details_reviews,  \* details as far as the reviews go: [keys, reviews]
    positive_reviews,
    negative_reviews

evalVars == <<sched, opening_hours, now, open_status, epc>>
searchVars == <<geocode_result, coords, catIdx, responses>>
rowVars == <<rowIdx, detailCache, distCache, place_data, df>>
sidebarVars == <<min_rating, max_price, open_status_filter, selected_cuisines>>
filterVars == <<fpc, sidebarVars, df_filtered, sort_option>>

reviewVars == <<vpc, details_reviews, positive_reviews, negative_reviews>>

vars == <<evalVars, pc, places, st_errors, searchVars, rowVars, filterVars, reviewVars>>

------------------------------------------------------------------------------
(* Bounds of the model.                                                    *)

MaxPeriods == 2
MaxPlaces == 2
MaxRows == 3
MaxSelected == 2
MaxReviews == 4

------------------------------------------------------------------------------
(* Small helpers.                                                          *)

Min(a, b) == IF a < b THEN a ELSE b

Range(s) == {s[i] : i \in 1..Len(s)}

\* The sequences over S of length at most n.
SeqsUpTo(S, n) == UNION {[1..k -> S] : k \in 0..n}

------------------------------------------------------------------------------
(* Strings as character sequences, and Python's int() on them.             *)

DigitChars == <<"0", "1", "2", "3", "4", "5", "6", "7", "8", "9">>

IsDigit(c) == \E i \in 1..Len(DigitChars) : DigitChars[i] = c

DigitVal(c) == (CHOOSE i \in 1..Len(DigitChars) : DigitChars[i] = c) - 1

RECURSIVE DigitsValue(_)
DigitsValue(s) ==
    IF s = <<>> THEN 0
    ELSE 10 * DigitsValue(SubSeq(s, 1, Len(s) - 1)) + DigitVal(s[Len(s)])

\* int(s): a ValueError for an empty string or one with a character that is
\* not a digit (the strings of the model hold digits and letters only).
PyInt(s) ==
    IF s # <<>> /\ \A i \in 1..Len(s) : IsDigit(s[i])
    THEN [ok |-> TRUE, val |-> DigitsValue(s)]
    ELSE [ok |-> FALSE, val |-> 0]

\* s[:2] and s[2:]
Head2(s) == SubSeq(s, 1, Min(2, Len(s)))
Tail2(s) == SubSeq(s, 3, Len(s))

\* int(t[:2]) * 60 + int(t[2:])
TimeToMinutes(t) ==
    LET h == PyInt(Head2(t))
        m == PyInt(Tail2(t))
    IN  IF h.ok /\ m.ok THEN [ok |-> TRUE, val |-> h.val * 60 + m.val]
        ELSE [ok |-> FALSE, val |-> 0]

------------------------------------------------------------------------------
(* is_open_now.                                                            *)

\* open_time <= current_minutes < close_time
InWindowClosedAt(open_time, current_minutes, close_time) ==
    open_time <= current_minutes /\ current_minutes <= close_time

InWindow(open_time, current_minutes, close_time) ==
    open_time <= current_minutes /\ current_minutes < close_time

\* The loop over opening_hours['periods'], from index i on.
RECURSIVE ScanPeriods(_, _, _, _)
ScanPeriods(periods, i, current_day, current_minutes) ==
    IF i > Len(periods) THEN "Closed"
    ELSE
    LET period == periods[i]
        rest == ScanPeriods(periods, i + 1, current_day, current_minutes)
    IN  IF "open" \notin period.keys \/ "day" \notin period.open.keys
        THEN "KeyError"
        ELSE IF period.open.day # current_day THEN rest
        ELSE IF "time" \notin period.open.keys THEN "KeyError"
        ELSE
        LET open_time == TimeToMinutes(period.open.time)
        IN  IF ~open_time.ok THEN "ValueError"
            ELSE IF "close" \in period.keys
            THEN IF "time" \notin period.close.keys THEN "KeyError"
                 ELSE
                 LET close_time == TimeToMinutes(period.close.time)
                 IN  IF ~close_time.ok THEN "ValueError"
                     ELSE IF InWindow(open_time.val, current_minutes, close_time.val)
                     THEN "Open"
                     ELSE rest
            ELSE IF current_minutes >= open_time.val THEN "Open"
            ELSE rest

is_open_now(oh, current) ==
    IF oh.keys = {} \/ "periods" \notin oh.keys THEN "Unknown"
    ELSE ScanPeriods(oh.periods, 1, current.day, current.minute)

Raised(r) == r \in {"KeyError", "ValueError"}

------------------------------------------------------------------------------
(* The places API's side: a weekly schedule and its encoding as the        *)
(* opening_hours dictionary ("HHMM" times).                                *)

\* "HHMM" of a minute of the day.
HHMM(m) ==
    << DigitChars[(m \div 600) + 1], DigitChars[((m \div 60) % 10) + 1],
       DigitChars[((m % 60) \div 10) + 1], DigitChars[(m % 10) + 1] >>

NoTime == [keys |-> {}, day |-> 0, time |-> <<>>]

\* A weekly period [day, open, hasClose, close, defect] as the API sends it.
\* defect names what is wrong with the record, "none" for a sound one.
EncodePeriod(p) ==
    LET o == [keys |-> {"day", "time"}, day |-> p.day, time |-> HHMM(p.open)]
        c == [keys |-> {"day", "time"}, day |-> p.day, time |-> HHMM(p.close)]
        ks == IF p.hasClose THEN {"open", "close"} ELSE {"open"}
        cl == IF p.hasClose THEN c ELSE NoTime
    IN  CASE p.defect = "none" -> [keys |-> ks, open |-> o, close |-> cl]
          [] p.defect = "no_open" -> [keys |-> ks \ {"open"}, open |-> NoTime, close |-> cl]
          [] p.defect = "no_day" ->
                [keys |-> ks, open |-> [o EXCEPT !.keys = {"time"}], close |-> cl]
          [] p.defect = "no_time" ->
                [keys |-> ks, open |-> [o EXCEPT !.keys = {"day"}], close |-> cl]
          [] p.defect = "bad_time" ->
                [keys |-> ks, open |-> [o EXCEPT !.time = <<"9", "a", "m">>], close |-> cl]
          [] p.defect = "short_time" ->
                [keys |-> ks, open |-> [o EXCEPT !.time = Head2(o.time)], close |-> cl]

EncodePeriods(s) == [i \in 1..Len(s) |-> EncodePeriod(s[i])]

NoHours == [keys |-> {}, periods |-> <<>>]

\* The three shapes of the record: missing ({}), without a periods field, with one.
HoursShapes(s) ==
    IF s = <<>>
    THEN {NoHours,
          [keys |-> {"weekday_text"}, periods |-> <<>>],
          [keys |-> {"weekday_text", "periods"}, periods |-> <<>>]}
    ELSE {[keys |-> {"weekday_text", "periods"}, periods |-> EncodePeriods(s)]}

Period(d, o, hc, c, defect) ==
    [day |-> d, open |-> o, hasClose |-> hc, close |-> c, defect |-> defect]

SoundPeriods ==
    { Period(2, 540, TRUE, 1080, "none"),     \* 09:00-18:00
      Period(2, 1200, FALSE, 0, "none"),      \* from 20:00, no close
      Period(3, 540, TRUE, 1080, "none"),     \* another day
      Period(2, 1320, TRUE, 120, "none"),     \* overnight 22:00-02:00
      Period(2, 0, FALSE, 0, "none") }        \* always open

DefectivePeriods ==
    { Period(2, 540, TRUE, 1080, defect) :
        defect \in {"no_open", "no_day", "no_time", "bad_time", "short_time"} }

PeriodSamples == SoundPeriods \cup DefectivePeriods

Clock == [day : {2, 3}, minute : {0, 539, 540, 600, 1080, 1100, 1300, 1439}]

------------------------------------------------------------------------------
(* Values the variables of one part hold while another part runs.          *)

NoneCoords == [isNone |-> TRUE, lat |-> 0, lng |-> 0]

EmptyMap == [x \in {} |-> 0]

IdleEval ==
    /\ sched = <<>>
    /\ opening_hours = NoHours
    /\ open_status = "none"
    /\ epc = "idle"

IdleSearch ==
    /\ geocode_result = "none"
    /\ coords = NoneCoords
    /\ catIdx = 1
    /\ responses = <<>>

IdleRows ==
    /\ rowIdx = 1
    /\ detailCache = EmptyMap
    /\ distCache = EmptyMap
    /\ place_data = <<>>
    /\ df = <<>>

IdleFilter ==
    /\ fpc = "idle"
    /\ min_rating = 0
    /\ max_price = <<"A", "n", "y">>
    /\ open_status_filter = {"Open", "Unknown"}
    /\ selected_cuisines = {}
    /\ df_filtered = <<>>
    /\ sort_option = "none"

IdleReviews ==
    /\ vpc = "idle"
    /\ details_reviews = [keys |-> {}, reviews |-> <<>>]
    /\ positive_reviews = <<>>
    /\ negative_reviews = <<>>

IdleRun ==
    /\ pc = "idle"
    /\ places = <<>>
    /\ st_errors = {}
    /\ IdleSearch
    /\ IdleRows

------------------------------------------------------------------------------
(* SpecEval: is_open_now applied to every schedule of the samples.         *)

InitEval ==
    /\ sched \in SeqsUpTo(PeriodSamples, MaxPeriods)
    /\ opening_hours \in HoursShapes(sched)
    /\ now \in Clock
    /\ open_status = "none"
    /\ epc = "call"
    /\ IdleRun
    /\ IdleFilter
    /\ IdleReviews

CallIsOpenNow ==
    /\ epc = "call"
    /\ open_status' = is_open_now(opening_hours, now)
    /\ epc' = "returned"
    /\ UNCHANGED <<sched, opening_hours, now>>
    /\ UNCHANGED <<pc, places, st_errors, searchVars, rowVars, filterVars, reviewVars>>

NextEval == CallIsOpenNow

SpecEval == InitEval /\ [][NextEval]_vars

------------------------------------------------------------------------------
(* The run of main() up to the candidate list: get_coordinates and         *)
(* get_nearby_food_places.                                                 *)

food_types ==
    <<"restaurant", "cafe", "bakery", "bar", "meal_takeaway", "meal_delivery">>

\* The venues the places API knows near the address.  Venues 1 and 3 are two
\* listings with one name at one spot.
Venues ==
    { [place_id |-> 1, name |-> "A", loc |-> 1],
      [place_id |-> 2, name |-> "B", loc |-> 2],
      [place_id |-> 3, name |-> "A", loc |-> 1] }

\* What gmaps.geocode can answer: an exception, an empty list, or a location
\* (in tenths of a degree; latitude 0 is the equator, longitude 0 Greenwich).
GeocodeAnswers ==
    { [kind |-> "exception", lat |-> 0, lng |-> 0],
      [kind |-> "empty", lat |-> 0, lng |-> 0],
      [kind |-> "ok", lat |-> 13, lng |-> 1038],
      [kind |-> "ok", lat |-> 0, lng |-> 1038],
      [kind |-> "ok", lat |-> 515, lng |-> 0] }

Msg(kind, at) == [kind |-> kind, at |-> at]

\* get_coordinates: the pair it returns and the error it shows.
get_coordinates(answer) ==
    IF answer.kind = "ok"
    THEN [ret |-> [isNone |-> FALSE, lat |-> answer.lat, lng |-> answer.lng],
          shown |-> {}]
    ELSE [ret |-> NoneCoords,
          shown |-> IF answer.kind = "exception"
                    THEN {Msg("Error getting coordinates", 0)} ELSE {}]

\* `if lat and lng:` -- None and 0.0 are both false.
HasCoordinates(c) == ~c.isNone /\ c.lat # 0 /\ c.lng # 0

\* An address was entered: get_coordinates, then `if lat and lng:`.
Geocode ==
    /\ pc = "geocode"
    /\ \E answer \in GeocodeAnswers :
         LET got == get_coordinates(answer)
         IN  /\ geocode_result' = answer.kind
             /\ coords' = got.ret
             /\ IF HasCoordinates(got.ret)
                THEN /\ pc' = "search"
                     /\ st_errors' = st_errors \cup got.shown
                ELSE /\ pc' = "stopped"
                     /\ st_errors' = st_errors \cup got.shown
                                       \cup {Msg("Unable to find coordinates", 0)}
    /\ UNCHANGED <<catIdx, responses, places, rowVars, evalVars, filterVars, reviewVars>>

\* The sequences over S without a repeated element, of length at most n.
DistinctSeqs(S, n) ==
    {s \in SeqsUpTo(S, n) : \A i, j \in 1..Len(s) : i # j => s[i] # s[j]}

\* What gmaps.places_nearby can answer for one category when the list holds
\* n places: an exception, or a result list.
NearbyAnswers(n) ==
    {[ok |-> FALSE, results |-> <<>>]}
    \cup {[ok |-> TRUE, results |-> r] : r \in DistinctSeqs(Venues, MaxPlaces - n)}

\* An aggregator that drops a result whose place_id the list already holds.
ExtendNewIdsOnly(list, results) ==
    list \o SelectSeq(results,
                      LAMBDA r : \A k \in 1..Len(list) : list[k].place_id # r.place_id)

\* places.extend(results)
Extend(list, results) == list \o results

\* A loop that an exception ends.
LeaveLoopOnFetchError(i) == Len(food_types) + 1

\* The index of the category the loop goes to after an exception was caught.
AfterFetchError(i) == i + 1

SearchCategory ==
    /\ pc = "search"
    /\ catIdx <= Len(food_types)
    /\ \E answer \in NearbyAnswers(Len(places)) :
         /\ responses' = Append(responses, answer)
         /\ IF answer.ok
            THEN /\ places' = Extend(places, answer.results)
                 /\ st_errors' = st_errors
                 /\ catIdx' = catIdx + 1
            ELSE /\ places' = places
                 /\ st_errors' = st_errors \cup {Msg("Error fetching places", catIdx)}
                 /\ catIdx' = AfterFetchError(catIdx)
    /\ UNCHANGED <<pc, geocode_result, coords, rowVars, evalVars, filterVars, reviewVars>>

\* get_nearby_food_places returns; main goes on to the rows, or warns.
ReturnPlaces ==
    /\ pc = "search"
    /\ catIdx > Len(food_types)
    /\ IF places # <<>>
       THEN /\ pc' = "rows"
            /\ st_errors' = st_errors
       ELSE /\ pc' = "empty"
            /\ st_errors' = st_errors \cup {Msg("No food options found", 0)}
    /\ UNCHANGED <<places, searchVars, rowVars, evalVars, filterVars, reviewVars>>

------------------------------------------------------------------------------
(* The rows: the loop of main() over places and drop_duplicates.           *)

NA == <<"N", "/", "A">>

\* '$' * n
Dollars(n) == [i \in 1..n |-> "$"]

\* ', '.join(types)
RECURSIVE Join(_)
Join(types) ==
    IF types = <<>> THEN <<>>
    ELSE IF Len(types) = 1 THEN types[1]
    ELSE types[1] \o <<",", " ">> \o Join(Tail(types))

\* x or 'N/A' for a string x
OrNA(x) == IF x = <<>> THEN NA ELSE x

NoDetails ==
    [keys |-> {}, rating |-> 0, price_level |-> 0, types |-> <<>>,
     opening_hours |-> NoHours, user_ratings_total |-> 0]

\* A details record of the places API whose schedule is s.
DetailsWith(s) ==
    [keys |-> {"rating", "price_level", "types", "opening_hours", "user_ratings_total"},
     rating |-> 45, price_level |-> 2, types |-> << <<"c", "a", "f", "e">> >>,
     opening_hours |-> [keys |-> {"weekday_text", "periods"}, periods |-> EncodePeriods(s)],
     user_ratings_total |-> 10]

\* What gmaps.place can answer: an exception, or a result.
DetailAnswers ==
    { [ok |-> FALSE, result |-> NoDetails],
      [ok |-> TRUE, result |-> DetailsWith(<<Period(2, 540, TRUE, 1080, "none")>>)],
      [ok |-> TRUE, result |-> DetailsWith(<<Period(2, 540, TRUE, 1080, "no_open")>>)] }

\* get_place_details: what it returns and the error it shows.
get_place_details(answer, place_id) ==
    IF answer.ok THEN [ret |-> answer.result, shown |-> {}]
    ELSE [ret |-> NoDetails, shown |-> {Msg("Error fetching place details", place_id)}]

\* The walking distance the distance matrix gives to a destination.
DistanceText(loc) ==
    IF loc = 1 THEN <<"0", ".", "3", " ", "k", "m">> ELSE <<"2", " ", "k", "m">>

\* calculate_distance: an exception of gmaps.distance_matrix gives "N/A".
calculate_distance(ok, loc) ==
    IF ok THEN [ret |-> DistanceText(loc), shown |-> {}]
    ELSE [ret |-> NA, shown |-> {Msg("Error calculating distance", loc)}]

\* A cached function: the cached value for a key seen before, any of the fresh
\* results otherwise.
Cached(cache, key, fresh) == IF key \in DOMAIN cache THEN {cache[key]} ELSE fresh

\* details.get('opening_hours', {})
GetOpeningHours(details) ==
    IF "opening_hours" \in details.keys THEN details.opening_hours ELSE NoHours

\* A cell of the Rating column: a number (in tenths), a string, or NaN.
Num(v) == [kind |-> "num", v |-> v, text |-> <<>>]
Str(t) == [kind |-> "str", v |-> 0, text |-> t]
NaN == [kind |-> "nan", v |-> 0, text |-> <<>>]

\* The dictionary appended to place_data.
BuildRow(place, details, distance, status) ==
    [ Name |-> place.name,
      Rating |-> IF "rating" \in details.keys
                 THEN Num(details.rating) ELSE Str(NA),
      Price_Level |-> OrNA(Dollars(IF "price_level" \in details.keys
                                   THEN details.price_level ELSE 0)),
      Type |-> OrNA(Join(IF "types" \in details.keys THEN details.types ELSE <<>>)),
      Distance |-> distance,
      Open_Now |-> status,
      Place_ID |-> place.place_id,
      Number_of_Reviews |-> IF "user_ratings_total" \in details.keys
                            THEN details.user_ratings_total ELSE 0 ]

\* One iteration of `for place in places`: details, distance, open status,
\* then the row, or the error when anything raised.
ProcessPlace ==
    /\ pc = "rows"
    /\ rowIdx <= Len(places)
    /\ LET place == places[rowIdx]
       IN  \E det \in Cached(detailCache, place.place_id,
                             {get_place_details(a, place.place_id) : a \in DetailAnswers}),
              dist \in Cached(distCache, place.loc,
                              {calculate_distance(ok, place.loc) : ok \in BOOLEAN}) :
             LET status == is_open_now(GetOpeningHours(det.ret), now)
             IN  /\ detailCache' = (place.place_id :> det) @@ detailCache
                 /\ distCache' = (place.loc :> dist) @@ distCache
                 /\ IF Raised(status)
                    THEN /\ place_data' = place_data
                         /\ st_errors' = st_errors \cup det.shown \cup dist.shown
                               \cup {Msg("Error processing place", place.place_id)}
                    ELSE /\ place_data' =
                               Append(place_data, BuildRow(place, det.ret, dist.ret, status))
                         /\ st_errors' = st_errors \cup det.shown \cup dist.shown
    /\ rowIdx' = rowIdx + 1
    /\ UNCHANGED <<pc, places, df, searchVars, evalVars, filterVars, reviewVars>>

\* The columns drop_duplicates compares.
SubsetKey(row) == <<row.Name, row.Distance>>

\* drop_duplicates(subset=['Name', 'Distance'], keep='first')
RECURSIVE DropFrom(_, _)
DropFrom(rows, i) ==
    IF i > Len(rows) THEN <<>>
    ELSE IF \E j \in 1..(i - 1) : SubsetKey(rows[j]) = SubsetKey(rows[i])
    THEN DropFrom(rows, i + 1)
    ELSE <<rows[i]>> \o DropFrom(rows, i + 1)

drop_duplicates(rows) == DropFrom(rows, 1)

\* After the loop: the table.  With no row at all the frame has no columns and
\* df['Type'] raises, which the handler around main() reports.
MakeTable ==
    /\ pc = "rows"
    /\ rowIdx > Len(places)
    /\ IF place_data = <<>>
       THEN /\ pc' = "crashed"
            /\ df' = df
            /\ st_errors' = st_errors \cup {Msg("An unexpected error occurred", 0)}
       ELSE /\ pc' = "table"
            /\ df' = drop_duplicates(place_data)
            /\ st_errors' = st_errors
    /\ UNCHANGED <<places, rowIdx, detailCache, distCache, place_data, searchVars,
                   evalVars, filterVars, reviewVars>>

------------------------------------------------------------------------------
(* Spec: one run of main() from the address to the table.                  *)

Init ==
    /\ pc = "geocode"
    /\ places = <<>>
    /\ st_errors = {}
    /\ IdleSearch
    /\ IdleRows
    /\ IdleEval
    /\ IdleFilter
    /\ IdleReviews
    /\ now = [day |-> 2, minute |-> 600]

Next == Geocode \/ SearchCategory \/ ReturnPlaces \/ ProcessPlace \/ MakeTable

Spec == Init /\ [][Next]_vars

------------------------------------------------------------------------------
(* The claims about is_open_now, under SpecEval.                           *)

SoundSchedule == \A i \in 1..Len(sched) : sched[i].defect = "none"

\* The period covers the instant, as the schedule states it.
Covers(p, instant) ==
    /\ p.day = instant.day
    /\ \/ p.hasClose /\ p.open <= instant.minute /\ instant.minute < p.close
       \/ ~p.hasClose /\ instant.minute >= p.open

\* C1: for a schedule with at least one period, is_open_now returns Open if and
\* only if some period of the current day covers the current minute (open <=
\* now < close, or now >= open when it has no close), and Closed otherwise.
C1_OpenIffSameDayPeriodCovers ==
    (epc = "returned" /\ sched # <<>> /\ SoundSchedule)
        => open_status = IF \E i \in 1..Len(sched) : Covers(sched[i], now)
                         THEN "Open" ELSE "Closed"

\* An overnight period of the current day and a period of another day: Closed,
\* at a minute after the overnight period opened.
C1_Witness ==
    /\ epc = "returned"
    /\ Len(sched) = 2
    /\ SoundSchedule
    /\ sched[1].day = now.day /\ sched[1].hasClose /\ sched[1].close < sched[1].open
    /\ now.minute >= sched[1].open
    /\ sched[2].day # now.day
    /\ open_status = "Closed"

\* C2: is_open_now returns Unknown whenever the schedule is empty or absent: a
\* missing record, a record without periods, a periods list with no period.
C2_UnknownWithoutPeriods ==
    (epc = "returned"
       /\ (opening_hours.keys = {} \/ "periods" \notin opening_hours.keys
           \/ opening_hours.periods = <<>>))
        => open_status = "Unknown"

------------------------------------------------------------------------------
(* The claims about the run, under Spec.                                   *)

\* get_nearby_food_places has returned.
SearchReturned == pc \in {"rows", "empty", "table", "crashed"}

\* The loop over places has ended.
RowsBuilt == pc \in {"table", "crashed"}

\* The results of the searches that succeeded, in the order of the searches.
RECURSIVE Gathered(_)
Gathered(rs) ==
    IF rs = <<>> THEN <<>>
    ELSE (IF Head(rs).ok THEN Head(rs).results ELSE <<>>) \o Gathered(Tail(rs))

NoTwoShareId(list) ==
    \A i, j \in 1..Len(list) : i # j => list[i].place_id # list[j].place_id

\* The index in place_data of the first row with the key of row r.
FirstWithKey(r) ==
    CHOOSE i \in 1..Len(place_data) :
        /\ SubsetKey(place_data[i]) = SubsetKey(r)
        /\ \A j \in 1..(i - 1) : SubsetKey(place_data[j]) # SubsetKey(r)

C4_FailedSearchDoesNotAbort ==
    SearchReturned =>
        /\ Len(responses) = Len(food_types)
        /\ \A i \in 1..Len(responses) :
             IF responses[i].ok
             THEN Range(responses[i].results) \subseteq Range(places)
             ELSE Msg("Error fetching places", i) \in st_errors
        /\ Range(places) \subseteq
             UNION {Range(responses[i].results) :
                      i \in {k \in 1..Len(responses) : responses[k].ok}}
        /\ \A m \in st_errors :
             m.kind = "Error fetching places" => ~responses[m.at].ok

\* The first and the third search fail, the last one finds a venue.
C4_Witness ==
    /\ SearchReturned
    /\ Len(responses) = Len(food_types)
    /\ ~responses[1].ok /\ ~responses[3].ok
    /\ responses[Len(food_types)].ok
    /\ responses[Len(food_types)].results # <<>>
    /\ places # <<>>

\* C5: when geocoding fails no later stage runs and the failure is shown; and
\* after a successful geocode the search always runs.
C5_OnlyGeocodeFailureStopsTheRun ==
    /\ geocode_result \in {"exception", "empty"} =>
         /\ pc = "stopped"
         /\ responses = <<>> /\ places = <<>> /\ place_data = <<>>
         /\ DOMAIN detailCache = {} /\ DOMAIN distCache = {}
         /\ Msg("Unable to find coordinates", 0) \in st_errors
    /\ geocode_result = "ok" => pc # "stopped"

\* The schedule of a details record has a period that is not sound: no open
\* day, no open time, or a time that is not four digits.
MalformedHours(oh) ==
    /\ "periods" \in oh.keys
    /\ \E i \in 1..Len(oh.periods) :
         LET p == oh.periods[i]
         IN  \/ "open" \notin p.keys
             \/ {"day", "time"} \ p.open.keys # {}
             \/ Len(p.open.time) # 4
             \/ \E k \in 1..Len(p.open.time) : ~IsDigit(p.open.time[k])

\* C6: a malformed schedule never makes is_open_now raise: the venue's row is
\* produced, with open status Unknown.
C6_MalformedScheduleGivesUnknownRow ==
    RowsBuilt =>
        \A i \in 1..Len(places) :
            MalformedHours(detailCache[places[i].place_id].ret.opening_hours)
                => \E k \in 1..Len(place_data) :
                      /\ place_data[k].Place_ID = places[i].place_id
                      /\ place_data[k].Open_Now = "Unknown"

------------------------------------------------------------------------------
(* The filter and sort stage of main().                                    *)

AnyPrice == <<"A", "n", "y">>

\* The characters of the strings that are compared, in code point order.
CodePoints ==
    <<" ", "$", ",", ".", "/", "0", "1", "2", "3", "4", "5", "6", "7", "8", "9",
      "A", "N", "a", "b", "c", "e", "f", "k", "m", "n", "r">>

Code(c) == CHOOSE i \in 1..Len(CodePoints) : CodePoints[i] = c

\* s <= t for two strings
RECURSIVE StrLE(_, _)
StrLE(s, t) ==
    IF s = <<>> THEN TRUE
    ELSE IF t = <<>> THEN FALSE
    ELSE IF Code(Head(s)) # Code(Head(t)) THEN Code(Head(s)) < Code(Head(t))
    ELSE StrLE(Tail(s), Tail(t))

\* sub in s, for two strings
In(sub, s) ==
    \E k \in 0..(Len(s) - Len(sub)) : SubSeq(s, k + 1, k + Len(sub)) = sub

\* s.split(', '), as the set of its parts
SepAt(s, k) == k >= 1 /\ k + 1 <= Len(s) /\ s[k] = "," /\ s[k + 1] = " "

Split(s) ==
    { SubSeq(s, ab[1], ab[2]) :
        ab \in { x \in (1..(Len(s) + 1)) \X (0..Len(s)) :
                   /\ x[1] <= x[2] + 1
                   /\ x[1] = 1 \/ SepAt(s, x[1] - 2)
                   /\ x[2] = Len(s) \/ SepAt(s, x[2] + 1)
                   /\ \A k \in x[1]..(x[2] - 1) : ~SepAt(s, k) } }

\* The options of the "Cuisine Type" multiselect.
cuisine_types(table) == UNION {Split(table[i].Type) : i \in 1..Len(table)}

\* pd.to_numeric(errors='coerce') on one cell
to_numeric(cell) ==
    IF cell.kind = "num" THEN cell
    ELSE IF cell.kind = "str" /\ PyInt(cell.text).ok THEN Num(10 * PyInt(cell.text).val)
    ELSE NaN

\* df_filtered['Rating'] >= min_rating (a comparison with NaN is false)
RatingAtLeast(row, least) == row.Rating.kind = "num" /\ row.Rating.v >= least

\* df_filtered['Open Now'].isin(open_status_filter)
OpenNowIsIn(row, statuses) == row.Open_Now \in statuses

\* any(cuisine in x for cuisine in selected_cuisines) if selected_cuisines else True
TypeHasCuisine(row, cuisines) ==
    IF cuisines # {} THEN \E cuisine \in cuisines : In(cuisine, row.Type) ELSE TRUE

\* A price filter that compares with the length of 'Any' too.
PriceWithinAlways(row, ceiling) == Len(row.Price_Level) <= Len(ceiling)

\* if max_price != 'Any': ...str.len() <= len(max_price)
PriceWithin(row, ceiling) ==
    IF ceiling # AnyPrice THEN Len(row.Price_Level) <= Len(ceiling) ELSE TRUE

\* Lines 187-196: the copy with Rating made numeric, then the two masks.
FilterRows(table, least, ceiling, statuses, cuisines) ==
    LET numeric == [i \in 1..Len(table) |->
                      [table[i] EXCEPT !.Rating = to_numeric(@)]]
        masked == SelectSeq(numeric,
                            LAMBDA row : /\ RatingAtLeast(row, least)
                                         /\ OpenNowIsIn(row, statuses)
                                         /\ TypeHasCuisine(row, cuisines))
    IN  SelectSeq(masked, LAMBDA row : PriceWithin(row, ceiling))

SortOptions == {"Distance", "Price Level", "Rating", "Number of Reviews"}

\* Row a may stand before row b in the order of sort_values for the option.
\* For "Price Level" the column holds the lengths when it is sorted.
MayPrecede(option, a, b) ==
    CASE option = "Distance" -> StrLE(a.Distance, b.Distance)
      [] option = "Price Level" -> Len(a.Price_Level) <= Len(b.Price_Level)
      [] option = "Rating" -> a.Rating.v >= b.Rating.v
      [] option = "Number of Reviews" -> a.Number_of_Reviews >= b.Number_of_Reviews

\* sort_values: the orders it can give (quicksort: rows with equal keys in any order).
sort_values(table, option) ==
    { [i \in 1..Len(table) |-> table[f[i]]] :
        f \in { g \in [1..Len(table) -> 1..Len(table)] :
                  /\ \A i, j \in 1..Len(table) : i # j => g[i] # g[j]
                  /\ \A i \in 1..(Len(table) - 1) :
                       MayPrecede(option, table[g[i]], table[g[i + 1]]) } }

\* Lines 221 and 223: the column becomes str.len(), then '$' * x for every x
\* (x is a number by then, so `x != 'N/A'` holds for each).
PriceAfterSort(price) == Dollars(Len(price))

RECURSIVE Decimal(_)
Decimal(n) ==
    IF n < 10 THEN <<DigitChars[n + 1]>>
    ELSE Decimal(n \div 10) \o <<DigitChars[(n % 10) + 1]>>

\* f"{x:.1f}" if isinstance(x, (int, float)) else x
FormatRating(cell) ==
    CASE cell.kind = "num" -> Str(Decimal(cell.v \div 10) \o <<".">> \o Decimal(cell.v % 10))
      [] cell.kind = "nan" -> Str(<<"n", "a", "n">>)
      [] cell.kind = "str" -> cell

\* Lines 217-229 on one row, after the rows are in order.
AfterSort(option, row) ==
    [row EXCEPT !.Price_Level = IF option = "Price Level" THEN PriceAfterSort(@) ELSE @,
                !.Rating = FormatRating(@)]

Row(name, rating, price, type, distance, status, id, reviews) ==
    [Name |-> name, Rating |-> rating, Price_Level |-> price, Type |-> type,
     Distance |-> distance, Open_Now |-> status, Place_ID |-> id,
     Number_of_Reviews |-> reviews]

TypeBar == <<"b", "a", "r">>
TypeCafe == <<"c", "a", "f", "e">>
TypeBarn == <<"b", "a", "r", "n">>
Km2 == <<"2", " ", "k", "m">>
Km10 == <<"1", "0", " ", "k", "m">>
Km03 == <<"0", ".", "3", " ", "k", "m">>

\* Rows as the loop builds them.
RowSamples ==
    { Row("A", Num(45), Dollars(2), Join(<<TypeCafe, TypeBar>>), Km2, "Open", 1, 10),
      Row("B", Str(NA), NA, NA, Km10, "Unknown", 2, 0),
      Row("C", Num(30), Dollars(1), TypeBarn, Km10, "Closed", 3, 7),
      Row("D", Num(40), NA, TypeCafe, Km03, "Open", 4, 10),
      Row("E", Num(50), Dollars(4), TypeBar, NA, "Unknown", 5, 120) }

\* The tables drop_duplicates can leave: rows with different (Name, Distance).
TableSamples ==
    { t \in DistinctSeqs(RowSamples, MaxRows) :
        /\ t # <<>>
        /\ \A i, j \in 1..Len(t) : i # j => SubsetKey(t[i]) # SubsetKey(t[j]) }

\* ['Any', '$', '$$', '$$$', '$$$$']
PriceOptions == {AnyPrice} \cup {Dollars(n) : n \in 1..4}

StatusChoices ==
    { {"Open", "Unknown"}, {"Open", "Closed", "Unknown"}, {"Closed"}, {} }

CuisineChoices(table) ==
    {c \in SUBSET cuisine_types(table) : Cardinality(c) <= MaxSelected}

\* The sidebar is read and the filters are applied; an empty result is a warning.
ApplyFilters ==
    /\ fpc = "filter"
    /\ \E least \in {0, 40, 41}, ceiling \in PriceOptions,
          statuses \in StatusChoices, cuisines \in CuisineChoices(df) :
         /\ min_rating' = least
         /\ max_price' = ceiling
         /\ open_status_filter' = statuses
         /\ selected_cuisines' = cuisines
         /\ df_filtered' = FilterRows(df, least, ceiling, statuses, cuisines)
         /\ fpc' = IF df_filtered' = <<>> THEN "warned" ELSE "sort"
    /\ st_errors' = IF fpc' = "warned"
                    THEN st_errors \cup {Msg("No results match your current filters", 0)}
                    ELSE st_errors
    /\ UNCHANGED <<sort_option, pc, places, searchVars, rowVars, evalVars, reviewVars>>

\* "Sort by:" is read and the table is sorted and formatted.
SortRows ==
    /\ fpc = "sort"
    /\ \E option \in SortOptions :
         /\ sort_option' = option
         /\ \E sorted \in sort_values(df_filtered, option) :
              df_filtered' = [i \in 1..Len(sorted) |-> AfterSort(option, sorted[i])]
    /\ fpc' = "sorted"
    /\ UNCHANGED <<sidebarVars, pc, places, st_errors, searchVars, rowVars, evalVars,
                   reviewVars>>

\* The filter stage starts from a table.  It reads df and the sidebar only:
\* the variables of the stages before it are left as IdleRun has them.
InitFilter ==
    /\ IdleEval
    /\ now = [day |-> 2, minute |-> 600]
    /\ pc = "idle"
    /\ places = <<>>
    /\ st_errors = {}
    /\ IdleSearch
    /\ rowIdx = 1
    /\ detailCache = EmptyMap
    /\ distCache = EmptyMap
    /\ place_data = <<>>
    /\ df \in TableSamples
    /\ fpc = "filter"
    /\ min_rating = 0
    /\ max_price = AnyPrice
    /\ open_status_filter = {"Open", "Unknown"}
    /\ selected_cuisines = {}
    /\ df_filtered = <<>>
    /\ sort_option = "none"
    /\ IdleReviews

NextFilter == ApplyFilters \/ SortRows

SpecFilter == InitFilter /\ [][NextFilter]_vars

------------------------------------------------------------------------------
(* The reviews of the selected place.                                      *)

\* sorted(list, key=lambda x: x['rating'], reverse=True): a stable sort, so
\* reviews with one rating keep the order of the list.
RECURSIVE InsertByRating(_, _)
InsertByRating(sorted, review) ==
    IF sorted = <<>> THEN <<review>>
    ELSE IF Head(sorted).rating >= review.rating
    THEN <<Head(sorted)>> \o InsertByRating(Tail(sorted), review)
    ELSE <<review>> \o sorted

RECURSIVE SortedByRating(_)
SortedByRating(list) ==
    IF list = <<>> THEN <<>>
    ELSE InsertByRating(SortedByRating(SubSeq(list, 1, Len(list) - 1)), list[Len(list)])

\* s[:3]
FirstThree(s) == SubSeq(s, 1, Min(3, Len(s)))

\* A slice from the front where the code slices from the back.
LeadingThree(s) == SubSeq(s, 1, Min(3, Len(s)))

\* s[-3:]
LastThree(s) == SubSeq(s, IF Len(s) > 3 THEN Len(s) - 2 ELSE 1, Len(s))

\* [r for r in reviews if r['rating'] >= 4][:3]
PositiveOf(sorted) == FirstThree(SelectSeq(sorted, LAMBDA r : r.rating >= 4))

\* [r for r in reviews if r['rating'] <= 2][-3:]
NegativeOf(sorted) == LastThree(SelectSeq(sorted, LAMBDA r : r.rating <= 2))

\* The review lists of the places API: ratings 1 to 5, each text its own.
ReviewLists ==
    { [i \in 1..Len(ratings) |-> [rating |-> ratings[i], text |-> i]] :
        ratings \in SeqsUpTo(1..5, MaxReviews) }

\* `if selected_place and 'reviews' in details:` holds.
SelectReviews ==
    /\ vpc = "select"
    /\ "reviews" \in details_reviews.keys
    /\ LET reviews == SortedByRating(details_reviews.reviews)
       IN  /\ positive_reviews' = PositiveOf(reviews)
           /\ negative_reviews' = NegativeOf(reviews)
    /\ vpc' = "shown"
    /\ UNCHANGED <<details_reviews, pc, places, st_errors, searchVars, rowVars, evalVars,
                   filterVars>>

\* The details have no reviews: "No reviews available for this place."
NoReviews ==
    /\ vpc = "select"
    /\ "reviews" \notin details_reviews.keys
    /\ vpc' = "none"
    /\ UNCHANGED <<details_reviews, positive_reviews, negative_reviews, pc, places,
                   st_errors, searchVars, rowVars, evalVars, filterVars>>

InitReviews ==
    /\ IdleEval
    /\ now = [day |-> 2, minute |-> 600]
    /\ IdleRun
    /\ IdleFilter
    /\ vpc = "select"
    /\ details_reviews \in
         {[keys |-> {}, reviews |-> <<>>]}
         \cup {[keys |-> {"reviews"}, reviews |-> list] : list \in ReviewLists}
    /\ positive_reviews = <<>>
    /\ negative_reviews = <<>>

NextReviews == SelectReviews \/ NoReviews

SpecReviews == InitReviews /\ [][NextReviews]_vars

------------------------------------------------------------------------------
(* The claims about the filter and sort stage, under SpecFilter.           *)

\* sub occurs in s as a substring.
Occurs(sub, s) ==
    \E k \in 0..Len(s) :
        /\ k + Len(sub) <= Len(s)
        /\ \A i \in 1..Len(sub) : s[k + i] = sub[i]

\* The four predicates of the filter on a row of the table, as the sidebar
\* stands.
Keeps(row) ==
    /\ row.Rating.kind = "num" /\ row.Rating.v >= min_rating
    /\ max_price = AnyPrice \/ Len(row.Price_Level) <= Len(max_price)
    /\ row.Open_Now \in open_status_filter
    /\ selected_cuisines = {} \/ \E c \in selected_cuisines : Occurs(c, row.Type)

Filtered == fpc \in {"sort", "warned"}

\* C7: the filter keeps a row if and only if the rating is a number >=
\* minRating, the ceiling is 'Any' or the price string is no longer than the
\* ceiling's, the open status is selected, and no cuisine is selected or one
\* occurs in the types string; the kept rows are rows of the input, in its order.
C7_FilterKeepsExactlyTheConjunction ==
    Filtered =>
        /\ \A i \in 1..Len(df) :
             Keeps(df[i]) <=> \E k \in 1..Len(df_filtered) : df_filtered[k] = df[i]
        /\ \A k \in 1..Len(df_filtered) : \E i \in 1..Len(df) : df[i] = df_filtered[k]
        /\ Len(df_filtered) = Cardinality({i \in 1..Len(df) : Keeps(df[i])})
        /\ \A i \in 1..Len(df) : df[i].Rating = Str(NA) => df[i] \notin Range(df_filtered)
        /\ \A k, l \in 1..Len(df_filtered) :
             k < l => \E i, j \in 1..Len(df) :
                        i < j /\ df[i] = df_filtered[k] /\ df[j] = df_filtered[l]

\* With ceiling 'Any' a '$$$$' row is kept and, with minimum rating 0, a row
\* rated "N/A" is dropped; a cuisine is selected.
C7_Witness ==
    /\ fpc = "sort"
    /\ max_price = AnyPrice
    /\ min_rating = 0
    /\ selected_cuisines # {}
    /\ \E k \in 1..Len(df_filtered) : Len(df_filtered[k].Price_Level) = 4
    /\ \E i \in 1..Len(df) :
         /\ df[i].Rating = Str(NA)
         /\ df[i].Open_Now \in open_status_filter
         /\ df[i] \notin Range(df_filtered)

\* The number a distance text starts with, in tenths: 20 for "2 km".
LeadingDigits(s) ==
    CHOOSE k \in 0..Len(s) :
        /\ \A i \in 1..k : IsDigit(s[i])
        /\ k = Len(s) \/ ~IsDigit(s[k + 1])

Magnitude(s) ==
    LET k == LeadingDigits(s)
    IN  10 * DigitsValue(SubSeq(s, 1, k))
        + (IF k + 2 <= Len(s) /\ s[k + 1] = "." /\ IsDigit(s[k + 2])
           THEN DigitVal(s[k + 2]) ELSE 0)

HasMagnitude(s) == LeadingDigits(s) > 0

\* C8: sorted by Distance, the rows are in ascending order of the number in
\* their distance text: "2 km" before "10 km".
C8_DistanceOrderIsNumeric ==
    (fpc = "sorted" /\ sort_option = "Distance") =>
        \A i, j \in 1..Len(df_filtered) :
            (i < j /\ HasMagnitude(df_filtered[i].Distance)
                   /\ HasMagnitude(df_filtered[j].Distance))
                => Magnitude(df_filtered[i].Distance) <= Magnitude(df_filtered[j].Distance)

\* The rating of a cell, in tenths, however it is written.
RatingValue(cell) == IF cell.kind = "num" THEN cell.v ELSE Magnitude(cell.text)

\* Two rows with the same value in every field.
SameValues(a, b) ==
    /\ a.Name = b.Name
    /\ RatingValue(a.Rating) = RatingValue(b.Rating)
    /\ a.Price_Level = b.Price_Level
    /\ a.Type = b.Type
    /\ a.Distance = b.Distance
    /\ a.Open_Now = b.Open_Now
    /\ a.Place_ID = b.Place_ID
    /\ a.Number_of_Reviews = b.Number_of_Reviews

\* C10: for each sort key the sorted table holds exactly the rows of the
\* filtered table, every field value as it was: a price string "N/A" is still
\* "N/A" after sorting by Price Level.
C10_SortOnlyReorders ==
    fpc = "sorted" =>
        LET before == FilterRows(df, min_rating, max_price, open_status_filter,
                                 selected_cuisines)
        IN  /\ Len(df_filtered) = Len(before)
            /\ \E f \in [1..Len(before) -> 1..Len(before)] :
                 /\ \A i, j \in 1..Len(before) : i # j => f[i] # f[j]
                 /\ \A i \in 1..Len(before) : SameValues(df_filtered[i], before[f[i]])

------------------------------------------------------------------------------
(* The claim about the review selector, under SpecReviews.                 *)

Band(low, high) ==
    {i \in 1..Len(details_reviews.reviews) :
        /\ details_reviews.reviews[i].rating >= low
        /\ details_reviews.reviews[i].rating <= high}

NonIncreasing(list) ==
    \A k, l \in 1..Len(list) : k < l => list[k].rating >= list[l].rating

\* C9: positive is the first up to three reviews rated >= 4 in descending
\* order, negative the lowest-rated up to three of those rated <= 2, in the
\* descending order; a review rated 3 is in neither, an empty band gives an
\* empty list.
C9_ReviewSelection ==
    vpc = "shown" =>
        /\ Len(positive_reviews) = Min(3, Cardinality(Band(4, 5)))
        /\ Len(negative_reviews) = Min(3, Cardinality(Band(1, 2)))
        /\ \A k \in 1..Len(positive_reviews) :
             /\ positive_reviews[k].rating >= 4
             /\ positive_reviews[k] \in Range(details_reviews.reviews)
        /\ \A k \in 1..Len(negative_reviews) :
             /\ negative_reviews[k].rating <= 2
             /\ negative_reviews[k] \in Range(details_reviews.reviews)
        /\ \A k, l \in 1..Len(positive_reviews) :
             k # l => positive_reviews[k] # positive_reviews[l]
        /\ \A k, l \in 1..Len(negative_reviews) :
             k # l => negative_reviews[k] # negative_reviews[l]
        /\ NonIncreasing(positive_reviews)
        /\ NonIncreasing(negative_reviews)
        /\ \A i \in Band(4, 5) :
             details_reviews.reviews[i] \notin Range(positive_reviews)
                => \A k \in 1..Len(positive_reviews) :
                      positive_reviews[k].rating >= details_reviews.reviews[i].rating
        /\ \A i \in Band(1, 2) :
             details_reviews.reviews[i] \notin Range(negative_reviews)
                => \A k \in 1..Len(negative_reviews) :
                      negative_reviews[k].rating <= details_reviews.reviews[i].rating

\* Four reviews of the low band: three are taken, a review rated 2 is left
\* out; the band of rating >= 4 is empty.
C9_Witness ==
    /\ vpc = "shown"
    /\ Cardinality(Band(1, 2)) = 4
    /\ Len(negative_reviews) = 3
    /\ negative_reviews[1].rating = 2
    /\ negative_reviews[3].rating = 1
    /\ \E i \in Band(2, 2) : details_reviews.reviews[i] \notin Range(negative_reviews)
    /\ positive_reviews = <<>>

====
